---- MODULE Spec2Model ----
(***************************************************************************)
(* EBU STL (Tech 3264) subtitle demuxer and decoder.                       *)
(*   libavformat/ebustldec.c : ebustl_read_packet, ebustl_timestamp_to_pts *)
(*   libavcodec/ebustldec.c  : ebustl_decode_frame and its helpers         *)
(* Byte strings are sequences of integers 0..255; a C buffer buf is a      *)
(* sequence whose element buf[i] (C, 0-based) is At(buf, i).               *)
(***************************************************************************)
EXTENDS Integers, Sequences, FiniteSets, TLC

(***************************************************************************)
(* Bounds of the model.                                                    *)
(***************************************************************************)
\* number of 128-byte blocks left in the stream at most
MaxBlocks == 2
\* number of leading text-field bytes that vary; the rest of the field is 0x8F
VarLen == 3
\* longest input handed to the transcoder on its own
MaxLen == 3

(***************************************************************************)
(* Program constants.                                                      *)
(***************************************************************************)
TTI_TEXT_FIELD_OFFSET == 16
TTI_TEXT_FIELD_LENGTH == 112
TTI_BLOCK_SIZE == 128
\* errno value behind AVERROR(ENOMEM)
ENOMEM == 12

AVERROR(e) == -e

\* FFERRTAG('E','O','F',' ') of libavutil/error.h
AVERROR_EOF == -(69 + 79 * 256 + 70 * 65536 + 32 * 16777216)

\* the null pointer: no byte string of the model equals it
NULL == <<-1>>

At(buf, i) == buf[i + 1]

\* the C string held in a buffer: the bytes before the first NUL
c_str(s) ==
    IF \E k \in 1..Len(s) : s[k] = 0
    THEN SubSeq(s, 1, (CHOOSE k \in 1..Len(s) : s[k] = 0 /\ \A m \in 1..(k - 1) : s[m] # 0) - 1)
    ELSE s

RECURSIVE Concat(_)
Concat(parts) ==
    IF parts = <<>> THEN <<>> ELSE Head(parts) \o Concat(Tail(parts))

(***************************************************************************)
(* libavformat/ebustldec.c                                                 *)
(***************************************************************************)
\* ebustl_timestamp_to_pts without the bias of 10 on the hours
ebustl_timestamp_to_pts_nobias(timecode) ==
    LET hours == At(timecode, 0)
        minutes == At(timecode, 1)
        seconds == At(timecode, 2)
        frames == At(timecode, 3)
    IN (hours * 3600 + minutes * 60 + seconds) * 1000 + frames * (1000 \div 25)

ebustl_timestamp_to_pts(timecode) ==
    LET hours == At(timecode, 0)
        minutes == At(timecode, 1)
        seconds == At(timecode, 2)
        frames == At(timecode, 3)
    IN ((hours - 10) * 3600 + minutes * 60 + seconds) * 1000 + frames * (1000 \div 25)

\* pkt->data + off, as the four bytes read from it
TimecodeAt(data, off) == SubSeq(data, off + 1, off + 4)

NoPkt == [data |-> <<>>, size |-> 0, pts |-> 0, duration |-> 0]

\* the packet ebustl_read_packet fills from one full block
read_packet_fill(data) ==
    LET pts == ebustl_timestamp_to_pts(TimecodeAt(data, 5))
        pts_end == ebustl_timestamp_to_pts(TimecodeAt(data, 9))
    IN [data |-> data, size |-> TTI_BLOCK_SIZE, pts |-> pts, duration |-> pts_end - pts]

(***************************************************************************)
(* libavcodec/ebustldec.c : ISO 6937 to UTF-8                              *)
(***************************************************************************)
\* an unsigned char converted to (signed) char
to_char(b) == IF b >= 128 THEN b - 256 ELSE b

map_iso6937_to_utf8(diacritic, base) ==
    CASE diacritic = 193 ->
           (CASE base = 65 -> <<195, 128>> [] base = 69 -> <<195, 136>>
              [] base = 73 -> <<195, 140>> [] base = 79 -> <<195, 146>>
              [] base = 85 -> <<195, 153>> [] base = 97 -> <<195, 160>>
              [] base = 101 -> <<195, 168>> [] base = 105 -> <<195, 172>>
              [] base = 111 -> <<195, 178>> [] base = 117 -> <<195, 185>>
              [] OTHER -> NULL)
      [] diacritic = 194 ->
           (CASE base = 65 -> <<195, 129>> [] base = 69 -> <<195, 137>>
              [] base = 73 -> <<195, 141>> [] base = 79 -> <<195, 147>>
              [] base = 85 -> <<195, 154>> [] base = 97 -> <<195, 161>>
              [] base = 101 -> <<195, 169>> [] base = 105 -> <<195, 173>>
              [] base = 111 -> <<195, 179>> [] base = 117 -> <<195, 186>>
              [] OTHER -> NULL)
      [] diacritic = 195 ->
           (CASE base = 65 -> <<195, 130>> [] base = 69 -> <<195, 138>>
              [] base = 73 -> <<195, 142>> [] base = 79 -> <<195, 148>>
              [] base = 85 -> <<195, 155>> [] base = 97 -> <<195, 162>>
              [] base = 101 -> <<195, 170>> [] base = 105 -> <<195, 174>>
              [] base = 111 -> <<195, 180>> [] base = 117 -> <<195, 187>>
              [] OTHER -> NULL)
      [] diacritic = 200 ->
           (CASE base = 65 -> <<195, 132>> [] base = 69 -> <<195, 139>>
              [] base = 73 -> <<195, 143>> [] base = 79 -> <<195, 150>>
              [] base = 85 -> <<195, 156>> [] base = 97 -> <<195, 164>>
              [] base = 101 -> <<195, 171>> [] base = 105 -> <<195, 175>>
              [] base = 111 -> <<195, 182>> [] base = 117 -> <<195, 188>>
              [] OTHER -> NULL)
      [] OTHER -> NULL

\* convert_loop without the i++ that skips the base letter of a mapped pair
RECURSIVE convert_loop_noskip(_, _, _, _)
convert_loop_noskip(input, length, i, output) ==
    IF i >= length THEN output
    ELSE LET diacritic == At(input, i)
             utf8_char ==
                 IF diacritic >= 193 /\ diacritic <= 207 /\ i + 1 < length
                 THEN map_iso6937_to_utf8(diacritic, to_char(At(input, i + 1)))
                 ELSE NULL
         IN IF utf8_char # NULL
            THEN convert_loop_noskip(input, length, i + 1, output \o utf8_char)
            ELSE convert_loop_noskip(input, length, i + 1, Append(output, At(input, i)))

\* the for loop of convert_iso6937_to_utf8; j is Len(output)
RECURSIVE convert_loop(_, _, _, _)
convert_loop(input, length, i, output) ==
    IF i >= length THEN output
    ELSE LET diacritic == At(input, i)
             utf8_char ==
                 IF diacritic >= 193 /\ diacritic <= 207 /\ i + 1 < length
                 THEN map_iso6937_to_utf8(diacritic, to_char(At(input, i + 1)))
                 ELSE NULL
         IN IF utf8_char # NULL
            THEN convert_loop(input, length, i + 2, output \o utf8_char)
            ELSE convert_loop(input, length, i + 1, Append(output, At(input, i)))

\* line 140: the capacity of the output buffer, in bytes
out_len(length) == length * 4

\* line 166: the index j at which the terminating NUL is stored once the loop
\* has written output; the loop itself writes the indices below j
nul_index(output) == Len(output)

\* malloc_ok: whether malloc(length * 4) returned a buffer
convert_iso6937_to_utf8(input, length, malloc_ok) ==
    IF ~malloc_ok THEN NULL ELSE convert_loop(input, length, 0, <<>>)

(***************************************************************************)
(* libavcodec/ebustldec.c : colours of one line                            *)
(***************************************************************************)
\* one iteration of the for loop of extract_colors_from_tti, at offset i;
\* stop records the break
extract_colors_step(buf, i, st, line_count) ==
    LET byte == At(buf, i)
        newline == byte = 138
        cl == IF newline THEN st.current_line + 1 ELSE st.current_line
    IN IF newline /\ cl > line_count
       THEN [st EXCEPT !.current_line = cl, !.stop = TRUE]
       ELSE LET tc0 == IF newline THEN 0 ELSE st.text_color
                bg0 == IF newline THEN 7 ELSE st.background_color
            IN [text_color |->
                    IF cl = line_count /\ byte >= 0 /\ byte <= 7 THEN byte ELSE tc0,
                background_color |->
                    IF cl = line_count /\ ~(byte >= 0 /\ byte <= 7)
                       /\ byte >= 16 /\ byte <= 23
                    THEN byte % 8 ELSE bg0,
                current_line |-> cl,
                stop |-> FALSE]

\* the iterations i = lo .. hi - 1 of that loop, in order, up to the break
RECURSIVE extract_colors_loop(_, _, _, _, _)
extract_colors_loop(buf, lo, hi, st, line_count) ==
    IF st.stop \/ lo >= hi THEN st
    ELSE IF hi - lo = 1 THEN extract_colors_step(buf, lo, st, line_count)
    ELSE LET mid == (lo + hi) \div 2
         IN CHOOSE r \in {extract_colors_loop(buf, mid, hi, left, line_count) :
                             left \in {extract_colors_loop(buf, lo, mid, st, line_count)}} :
                TRUE

extract_colors_from_tti(buf, line_count) ==
    extract_colors_loop(buf, TTI_TEXT_FIELD_OFFSET,
                        TTI_TEXT_FIELD_OFFSET + TTI_TEXT_FIELD_LENGTH,
                        [text_color |-> 0, background_color |-> 7,
                         current_line |-> 0, stop |-> FALSE],
                        line_count)

(***************************************************************************)
(* libavcodec/ebustldec.c : the ASS tags, as byte strings                  *)
(***************************************************************************)
\* the hex digit pairs "FF" and "00"
xFF == <<70, 70>>
x00 == <<48, 48>>

\* "{\\c&H" hex "&}"
text_tag(hex) == <<123, 92, 99, 38, 72>> \o hex \o <<38, 125>>
\* "{\\3c&H" hex "&}"
border_tag(hex) == <<123, 92, 51, 99, 38, 72>> \o hex \o <<38, 125>>
\* "\\N"
LineBreak == <<92, 78>>
\* "{\\bord3}"
BorderWidth == <<123, 92, 98, 111, 114, 100, 51, 125>>

\* the decimal digits of n >= 0, as printf's %d writes them
RECURSIVE Itoa(_)
Itoa(n) == IF n < 10 THEN <<48 + n>> ELSE Append(Itoa(n \div 10), 48 + (n % 10))

\* "{\\an%d}"
alignment_tag(code) == <<123, 92, 97, 110>> \o Itoa(code) \o <<125>>

\* text_color_str chosen before the scan, for the first line
text_color_str_first(text_color) ==
    CASE text_color = 0 -> text_tag(xFF \o xFF \o xFF)
      [] text_color = 1 -> text_tag(x00 \o x00 \o xFF)
      [] text_color = 2 -> text_tag(x00 \o xFF \o x00)
      [] text_color = 3 -> text_tag(x00 \o xFF \o xFF)
      [] text_color = 4 -> text_tag(xFF \o x00 \o x00)
      [] text_color = 5 -> text_tag(xFF \o x00 \o xFF)
      [] text_color = 6 -> text_tag(xFF \o xFF \o x00)
      [] text_color = 7 -> text_tag(x00 \o x00 \o x00)
      [] OTHER -> NULL

border_color_first(background_color) ==
    CASE background_color = 0 -> border_tag(xFF \o xFF \o xFF)
      [] background_color = 1 -> border_tag(x00 \o xFF \o xFF)
      [] background_color = 2 -> border_tag(x00 \o xFF \o x00)
      [] background_color = 3 -> border_tag(xFF \o x00 \o x00)
      [] background_color = 4 -> border_tag(x00 \o x00 \o xFF)
      [] background_color = 5 -> border_tag(xFF \o x00 \o xFF)
      [] background_color = 6 -> border_tag(xFF \o xFF \o x00)
      [] background_color = 7 -> border_tag(x00 \o x00 \o x00)
      [] OTHER -> NULL

\* text_color_str chosen at a 0x8A, for the line that follows
text_color_str_next(text_color) ==
    CASE text_color = 0 -> text_tag(xFF \o xFF \o xFF)
      [] text_color = 1 -> text_tag(xFF \o x00 \o x00)
      [] text_color = 2 -> text_tag(x00 \o xFF \o x00)
      [] text_color = 3 -> text_tag(x00 \o xFF \o xFF)
      [] text_color = 4 -> text_tag(x00 \o x00 \o xFF)
      [] text_color = 5 -> text_tag(xFF \o x00 \o xFF)
      [] text_color = 6 -> text_tag(xFF \o xFF \o x00)
      [] text_color = 7 -> text_tag(x00 \o x00 \o x00)
      [] OTHER -> NULL

border_color_next(background_color) ==
    CASE background_color = 0 -> border_tag(xFF \o xFF \o xFF)
      [] background_color = 1 -> border_tag(x00 \o xFF \o xFF)
      [] background_color = 2 -> border_tag(x00 \o xFF \o x00)
      [] background_color = 3 -> border_tag(xFF \o x00 \o x00)
      [] background_color = 4 -> border_tag(x00 \o x00 \o xFF)
      [] background_color = 5 -> border_tag(xFF \o x00 \o xFF)
      [] background_color = 6 -> border_tag(xFF \o xFF \o x00)
      [] background_color = 7 -> border_tag(x00 \o x00 \o x00)
      [] OTHER -> NULL

(***************************************************************************)
(* libavcodec/ebustldec.c : markup of one block                            *)
(*                                                                         *)
(* oom names the working buffer whose allocation fails while the block is  *)
(* processed: "none", "line" (the malloc of the raw line accumulator),     *)
(* "utf8_line" (the malloc of convert_iso6937_to_utf8) or "ass_string"     *)
(* (the av_asprintf calls that build the markup).  The field ub records    *)
(* that the code went on to use a null pointer: a store through line, or   *)
(* a null ass_string given to av_asprintf for a %s; or that it stored a    *)
(* byte past the end of a buffer: the NUL of an empty line in the          *)
(* zero-byte buffer of convert_iso6937_to_utf8.  What such a use does is   *)
(* not defined: ebustl_decode_frame then either dies or goes on as if the  *)
(* access had gone through.                                                *)
(*                                                                         *)
(* The field live counts, for each kind of working buffer, the buffers     *)
(* the call has allocated and not freed.                                   *)
(***************************************************************************)
BufferKinds == {"line", "utf8_line", "ass_string", "alignment_str", "final_ass_text"}
NoBuffers == [k \in BufferKinds |-> 0]

\* malloc or av_asprintf has returned ptr for a buffer of this kind
allocated(live, kind, ptr) ==
    IF ptr = NULL THEN live ELSE [live EXCEPT ![kind] = @ + 1]

\* av_free(ptr), av_freep(&ptr): nothing is done for a null pointer
av_free(live, kind, ptr) ==
    IF ptr = NULL THEN live ELSE [live EXCEPT ![kind] = @ - 1]

OomSites == {"none", "line", "utf8_line", "ass_string"}

\* av_asprintf of a format made of %s conversions only
av_asprintf(args, oom) ==
    IF oom = "ass_string" THEN NULL
    ELSE Concat([k \in 1..Len(args) |-> c_str(args[k])])

text_field_offset == 13

\* lines 294-305: the line closed by a 0x8A is transcoded and appended
append_line(st, oom) ==
    LET text_len == Len(st.line)
        \* the NUL of line 166 does not fit the buffer
        past_end(utf8_line) ==
            utf8_line # NULL /\ nul_index(utf8_line) >= out_len(text_len)
        \* ass_string = av_asprintf(...), then av_free(utf8_line)
        appended(utf8_line, new_string) ==
            [st EXCEPT !.ass_string = new_string,
                       !.ub = @ \/ st.ass_string = NULL \/ past_end(utf8_line),
                       !.live = av_free(allocated(allocated(@, "utf8_line", utf8_line),
                                                  "ass_string", new_string),
                                        "utf8_line", utf8_line)]
        not_appended(utf8_line) ==
            [st EXCEPT !.ub = @ \/ past_end(utf8_line),
                       !.live = av_free(allocated(@, "utf8_line", utf8_line),
                                        "utf8_line", utf8_line)]
    IN CHOOSE r \in
           {IF utf8_line # NULL /\ st.line_count > 0 /\ text_len > 0
            THEN appended(utf8_line,
                          av_asprintf(<<st.ass_string, LineBreak, utf8_line>>, oom))
            ELSE IF utf8_line # NULL /\ text_len > 0
            THEN appended(utf8_line, av_asprintf(<<st.ass_string, utf8_line>>, oom))
            ELSE not_appended(utf8_line) :
               utf8_line \in {convert_iso6937_to_utf8(st.line, text_len,
                                                      oom # "utf8_line")}} : TRUE

\* lines 365-375: the same for the last line
append_last_line(st, oom) ==
    LET text_len == Len(st.line)
        \* the NUL of line 166 does not fit the buffer
        past_end(utf8_line) ==
            utf8_line # NULL /\ nul_index(utf8_line) >= out_len(text_len)
        \* ass_string = av_asprintf(...), then av_free(utf8_line)
        appended(utf8_line, new_string) ==
            [st EXCEPT !.ass_string = new_string,
                       !.ub = @ \/ st.ass_string = NULL \/ past_end(utf8_line),
                       !.live = av_free(allocated(allocated(@, "utf8_line", utf8_line),
                                                  "ass_string", new_string),
                                        "utf8_line", utf8_line)]
        not_appended(utf8_line) ==
            [st EXCEPT !.ub = @ \/ past_end(utf8_line),
                       !.live = av_free(allocated(@, "utf8_line", utf8_line),
                                        "utf8_line", utf8_line)]
    IN CHOOSE r \in
           {IF utf8_line # NULL /\ st.line_count > 0 /\ text_len > 0
            THEN appended(utf8_line,
                          av_asprintf(<<st.ass_string, LineBreak, utf8_line>>, oom))
            ELSE IF utf8_line # NULL /\ text_len > 0
            THEN appended(utf8_line, av_asprintf(<<st.ass_string, utf8_line>>, oom))
            ELSE not_appended(utf8_line) :
               utf8_line \in {convert_iso6937_to_utf8(st.line, text_len,
                                                      oom # "utf8_line")}} : TRUE

\* lines 290-350: the branch of the scan taken at a 0x8A
new_line(tti_block, st, oom) ==
    LET line_count == st.line_count + 1
        with_colors(st1, colors) ==
            av_asprintf(<<st1.ass_string,
                          text_color_str_next(colors.text_color),
                          border_color_next(colors.background_color)>>, oom)
    IN CHOOSE r \in
           {[ass_string |-> with_colors(st1, colors),
             line |-> <<>>,
             line_count |-> line_count,
             ub |-> st1.ub \/ st1.ass_string = NULL,
             live |-> allocated(st1.live, "ass_string", with_colors(st1, colors)),
             stop |-> FALSE] :
               st1 \in {append_line(st, oom)},
               colors \in {extract_colors_from_tti(tti_block, line_count)}} : TRUE

\* one iteration of the for loop of extract_text_and_colors_from_tti_block, at
\* offset i; stop records the break at 0x8F
extract_text_step(tti_block, i, st, oom) ==
    LET character == At(tti_block, i)
    IN IF character = 138 THEN new_line(tti_block, st, oom)
       ELSE IF character = 143 THEN [st EXCEPT !.stop = TRUE]
       ELSE IF character >= 32 THEN [st EXCEPT !.line = Append(@, character)]
       ELSE st

\* the iterations i = lo .. hi - 1 of that loop, in order, up to the break
RECURSIVE extract_text_loop(_, _, _, _, _)
extract_text_loop(tti_block, lo, hi, st, oom) ==
    IF st.stop \/ lo >= hi THEN st
    ELSE IF hi - lo = 1 THEN extract_text_step(tti_block, lo, st, oom)
    ELSE LET mid == (lo + hi) \div 2
         IN CHOOSE r \in {extract_text_loop(tti_block, mid, hi, left, oom) :
                             left \in {extract_text_loop(tti_block, lo, mid, st, oom)}} :
                TRUE

\* the result: ass_string (NULL or the markup), ub, and the buffers live at
\* the return, the returned ass_string among them
extract_text_and_colors_from_tti_block(tti_block, tti_block_size, oom) ==
    LET colors == extract_colors_from_tti(tti_block, 0)
        ass0 == av_asprintf(<<text_color_str_first(colors.text_color),
                              border_color_first(colors.background_color)>>, oom)
        line == IF oom = "line" THEN NULL ELSE <<>>
        st0 == [ass_string |-> ass0, line |-> <<>>, line_count |-> 0,
                ub |-> oom = "line",
                live |-> allocated(allocated(NoBuffers, "line", line),
                                   "ass_string", ass0),
                stop |-> FALSE]
    IN CHOOSE r \in
           {[ass_string |-> st2.ass_string, ub |-> st2.ub, live |-> st2.live] :
               st2 \in {append_last_line(st1, oom) :
                   st1 \in {extract_text_loop(tti_block, text_field_offset,
                                               tti_block_size, st, oom) :
                       st \in {st0}}}} : TRUE

(***************************************************************************)
(* libavcodec/ebustldec.c : ebustl_decode_frame                            *)
(***************************************************************************)
\* alignment_code with the Bottom band one row too wide
alignment_code_le8(justification_code, vertical_position) ==
    LET horizontal_alignment ==
            IF justification_code = 1 THEN 1
            ELSE IF justification_code = 2 THEN 2
            ELSE IF justification_code = 3 THEN 3
            ELSE 2
        vertical_alignment ==
            IF vertical_position <= 8 THEN 3
            ELSE IF vertical_position >= 8 /\ vertical_position <= 16 THEN 2
            ELSE 1
    IN (vertical_alignment - 1) * 3 + horizontal_alignment

\* lines 404-425: the number printed in the alignment tag
alignment_code(justification_code, vertical_position) ==
    LET horizontal_alignment ==
            IF justification_code = 1 THEN 1
            ELSE IF justification_code = 2 THEN 2
            ELSE IF justification_code = 3 THEN 3
            ELSE 2
        vertical_alignment ==
            IF vertical_position < 8 THEN 3
            ELSE IF vertical_position >= 8 /\ vertical_position <= 16 THEN 2
            ELSE 1
    IN (vertical_alignment - 1) * 3 + horizontal_alignment

\* lines 404-428: final_ass_text of a block whose ass_text is not empty
final_ass_text(buf, ass_text) ==
    LET justification_code == At(buf, 14)
        vertical_position == At(buf, 13)
        alignment_str == alignment_tag(alignment_code(justification_code, vertical_position))
    IN Concat(<<alignment_str, c_str(ass_text), BorderWidth>>)

\* avctx->time_base, as ebustl_decode_init and ebustl_read_header set it
time_base == [num |-> 1, den |-> 1000]

\* av_rescale_q(a, bq, cq): a * bq / cq; exact when the two time bases are equal
av_rescale_q(a, bq, cq) ==
    LET b == bq.num * cq.den
        c == cq.num * bq.den
    IN IF b = c THEN a ELSE (a * b) \div c

\* ff_ass_add_rect(sub, dialog, readorder, 0, NULL, NULL)
ff_ass_add_rect(sub, dialog, readorder) ==
    [sub EXCEPT !.rects = Append(@, [readorder |-> readorder, text |-> dialog])]

\* the buffers of one block, added to those the call already holds
AddBuffers(a, b) == [k \in BufferKinds |-> a[k] + b[k]]

\* the while loop of ebustl_decode_frame over the blocks of the packet
RECURSIVE decode_loop(_, _, _, _)
decode_loop(buf, buf_size, duration, d) ==
    IF buf_size < TTI_BLOCK_SIZE THEN d
    ELSE LET rest == SubSeq(buf, TTI_BLOCK_SIZE + 1, Len(buf))
             \* lines 396-401: the block is skipped
             skip(r) ==
                 [d EXCEPT !.ub = @ \/ r.ub,
                           !.live = AddBuffers(@, av_free(r.live, "ass_string",
                                                          r.ass_string))]
             \* lines 403-442: the cue is added, the three strings are freed
             cue(r, final) ==
                 [d EXCEPT !.sub = ff_ass_add_rect(
                               [d.sub EXCEPT !.end_display_time =
                                   av_rescale_q(duration, [num |-> 1, den |-> 1000],
                                                time_base)],
                               final, d.readorder),
                           !.readorder = @ + 1,
                           !.got_sub = 1,
                           !.ub = @ \/ r.ub,
                           !.live = AddBuffers(@,
                               av_free(av_free(av_free(
                                   allocated(allocated(r.live, "alignment_str", final),
                                             "final_ass_text", final),
                                   "ass_string", r.ass_string),
                                   "final_ass_text", final),
                                   "alignment_str", final))]
         IN CHOOSE out \in
                {decode_loop(rest, buf_size - TTI_BLOCK_SIZE, duration, next) :
                    next \in
                       {IF r.ass_string = NULL \/ At(r.ass_string \o <<0>>, 0) = 0
                        THEN skip(r)
                        ELSE CHOOSE c \in {cue(r, final) :
                                 final \in {final_ass_text(buf, r.ass_string)}} : TRUE :
                           r \in {extract_text_and_colors_from_tti_block(
                                      buf, TTI_BLOCK_SIZE, d.oom)}}} : TRUE

(***************************************************************************)
(* Inputs: the 128-byte blocks the stream may hold.                        *)
(***************************************************************************)
\* a TTI block: 5 bytes (SGN, SN, EBN, CS), TCI, TCO, VP, JC, CF, and the text
\* field, whose bytes after tf are the filler 0x8F
MkBlock(tci, tco, vp, jc, cf, tf) ==
    [k \in 1..TTI_BLOCK_SIZE |->
        LET i == k - 1
        IN CASE i < 5 -> 0
             [] i >= 5 /\ i < 9 -> tci[i - 4]
             [] i >= 9 /\ i < 13 -> tco[i - 8]
             [] i = 13 -> vp
             [] i = 14 -> jc
             [] i = 15 -> cf
             [] i >= 16 /\ i - 16 < Len(tf) -> tf[i - 15]
             [] OTHER -> 143]

\* 'e', the acute accent, line break, end of text, text colour Red,
\* background colour 0x11
TextBytes == {101, 194, 138, 143, 1, 17}
TextFields == [1..VarLen -> TextBytes]
\* (vertical position, justification code)
TextHeaders == {<<5, 2>>, <<65, 2>>, <<138, 2>>}
TextBlocks ==
    {MkBlock(<<10, 0, 5, 0>>, <<10, 0, 7, 0>>, h[1], h[2], 0, tf) :
        h \in TextHeaders, tf \in TextFields}

Timecodes ==
    {<<10, 0, 5, 0>>, <<10, 0, 7, 0>>}
        \cup {<<h, m, 59, f>> : h \in {0, 255}, m \in {0, 61}, f \in {0, 24}}
TimeBlocks ==
    {MkBlock(tci, tco, 5, 2, 0, <<101>>) : tci \in Timecodes, tco \in Timecodes}

VerticalPositions == {0, 5, 7, 8, 12, 16, 17, 20, 65, 255}
JustificationCodes == {0, 1, 2, 3, 4, 255}
AlignBlocks ==
    {MkBlock(<<10, 0, 5, 0>>, <<10, 0, 7, 0>>, vp, jc, 0, tf) :
        vp \in VerticalPositions, jc \in JustificationCodes, tf \in {<<101>>, <<>>}}

\* inputs of the transcoder: NUL, space, 'A', 'B', 'e', 0xC0, the four mapped
\* diacritics, an unmapped one (0xCF), 0xD0
ConvBytes == {0, 32, 65, 66, 101, 192, 193, 194, 195, 200, 207, 208}
Vowels == {65, 69, 73, 79, 85, 97, 101, 105, 111, 117}
\* and every diacritic byte before every vowel, 'B' and 'z'
ConvInputs ==
    UNION {[1..n -> ConvBytes] : n \in 0..MaxLen}
        \cup {<<d, b>> : d \in 193..207, b \in Vowels \cup {66, 122}}

(***************************************************************************)
(* State.                                                                  *)
(***************************************************************************)
VARIABLES
    pb_left,     \* s->pb: whole blocks left in the stream after the header
    pkt,         \* the AVPacket of the last ebustl_read_packet
    demux_ret,   \* what the last ebustl_read_packet returned
    sub,         \* the AVSubtitle of the last ebustl_decode_frame
    got_sub,     \* *got_sub_ptr
    decode_ret,  \* what the last ebustl_decode_frame returned
    readorder,   \* s->readorder
    alloc_fail,  \* the allocation that failed in the last ebustl_decode_frame
    live,        \* the working buffers the last ebustl_decode_frame allocated
                 \* and had not freed when it returned, counted by kind
    pc,          \* "demux", "decode", "output", "eof", "demux_error", "crashed"
    input,       \* the last argument of convert_iso6937_to_utf8 called on its own
    output       \* and its result

vars == <<pb_left, pkt, demux_ret, sub, got_sub, decode_ret, readorder, alloc_fail,
          live, pc, input, output>>

\* output before convert_iso6937_to_utf8 has been called
NotCalled == <<-2>>

NoSub == [rects |-> <<>>, end_display_time |-> 0]

Init ==
    /\ pb_left \in 0..MaxBlocks
    /\ pkt = NoPkt
    /\ demux_ret = 0
    /\ sub = NoSub
    /\ got_sub = 0
    /\ decode_ret = 0
    /\ readorder = 0
    /\ alloc_fail = "none"
    /\ live = NoBuffers
    /\ pc = "demux"
    /\ input = <<>>
    /\ output = NotCalled

(***************************************************************************)
(* ebustl_read_packet: the next block of the stream is one of Blocks.      *)
(***************************************************************************)
ReadPacket(Blocks) ==
    /\ pc = "demux"
    /\ \/ \* av_new_packet fails
          /\ demux_ret' = AVERROR(ENOMEM)
          /\ pc' = "demux_error"
          /\ UNCHANGED <<pb_left, pkt>>
       \/ \* avio_read returns fewer than TTI_BLOCK_SIZE bytes
          /\ pb_left = 0
          /\ pkt' = NoPkt
          /\ demux_ret' = AVERROR_EOF
          /\ pc' = "eof"
          /\ UNCHANGED pb_left
       \/ /\ pb_left > 0
          /\ \E data \in Blocks : pkt' = read_packet_fill(data)
          /\ pb_left' = pb_left - 1
          /\ demux_ret' = 0
          /\ pc' = "decode"
    /\ UNCHANGED <<sub, got_sub, decode_ret, readorder, alloc_fail, live, input, output>>

(***************************************************************************)
(* ebustl_decode_frame on the packet just read.                            *)
(***************************************************************************)
DecodeFrame ==
    /\ pc = "decode"
    /\ \E oom \in OomSites :
          \E d \in {decode_loop(pkt.data, pkt.size, pkt.duration,
                                [sub |-> NoSub, readorder |-> readorder, got_sub |-> 0,
                                 ub |-> FALSE, live |-> NoBuffers, oom |-> oom])} :
             /\ alloc_fail' = oom
             /\ \/ \* a null pointer or a byte past the end of a buffer was used
                   \* and the process dies
                   /\ d.ub
                   /\ pc' = "crashed"
                   /\ UNCHANGED <<sub, got_sub, decode_ret, readorder, live>>
                \/ \* no such access was made, or it went through
                   /\ sub' = d.sub
                   /\ live' = d.live
                   /\ got_sub' = d.got_sub
                   /\ readorder' = d.readorder
                   /\ decode_ret' = 0
                   /\ pc' = "output"
    /\ UNCHANGED <<pb_left, pkt, demux_ret, input, output>>

(***************************************************************************)
(* The caller hands the cues of the subtitle to its sink, frees the        *)
(* subtitle and the packet, and goes back to reading.                      *)
(***************************************************************************)
DeliverCues ==
    /\ pc = "output"
    /\ pc' = "demux"
    /\ pkt' = NoPkt
    /\ sub' = NoSub
    /\ got_sub' = 0
    /\ alloc_fail' = "none"
    /\ live' = NoBuffers
    /\ UNCHANGED <<pb_left, demux_ret, decode_ret, readorder, input, output>>

\* the cues the sink receives from the subtitle of the packet, in milliseconds
Cues ==
    [k \in 1..Len(sub.rects) |->
        [start_ms |-> pkt.pts,
         end_ms |-> pkt.pts + sub.end_display_time,
         markup_text |-> sub.rects[k].text,
         sequence_index |-> sub.rects[k].readorder]]

(***************************************************************************)
(* convert_iso6937_to_utf8 called on its own.                              *)
(***************************************************************************)
InitConv ==
    /\ pb_left = 0
    /\ pkt = NoPkt
    /\ demux_ret = 0
    /\ sub = NoSub
    /\ got_sub = 0
    /\ decode_ret = 0
    /\ readorder = 0
    /\ alloc_fail = "none"
    /\ live = NoBuffers
    /\ pc = "demux"
    /\ input \in ConvInputs
    /\ output = NotCalled

Transcode ==
    /\ output = NotCalled
    /\ \E malloc_ok \in BOOLEAN :
          output' = convert_iso6937_to_utf8(input, Len(input), malloc_ok)
    /\ UNCHANGED <<pb_left, pkt, demux_ret, sub, got_sub, decode_ret, readorder,
                   alloc_fail, live, pc, input>>

(***************************************************************************)
(* Specifications: one per family of inputs.                               *)
(***************************************************************************)
Next == ReadPacket(TextBlocks) \/ DecodeFrame \/ DeliverCues
Spec == Init /\ [][Next]_vars

NextTime == ReadPacket(TimeBlocks) \/ DecodeFrame \/ DeliverCues
SpecTime == Init /\ [][NextTime]_vars

NextAlign == ReadPacket(AlignBlocks) \/ DecodeFrame \/ DeliverCues
SpecAlign == Init /\ [][NextAlign]_vars

NextConv == Transcode
SpecConv == InitConv /\ [][NextConv]_vars

(***************************************************************************)
(* Properties.                                                             *)
(***************************************************************************)
\* the text field of a block, and its bytes before the first 0x8F
TextField(b) == SubSeq(b, TTI_TEXT_FIELD_OFFSET + 1, TTI_BLOCK_SIZE)
BeforeEOT(tf) ==
    IF \E k \in 1..Len(tf) : tf[k] = 143
    THEN SubSeq(tf, 1, (CHOOSE k \in 1..Len(tf) :
                            tf[k] = 143 /\ \A m \in 1..(k - 1) : tf[m] # 143) - 1)
    ELSE tf

\* the decoder has returned from a call in which no allocation failed
Decoded == pc = "output" /\ alloc_fail = "none"

\* C1: a block whose text field holds no printable byte (>= 0x20) before its
\* first 0x8F yields no cue: no rect is added and got_sub is not set.
C1_EmptyBlockYieldsNoCue ==
    (Decoded /\ \A k \in 1..Len(BeforeEOT(TextField(pkt.data))) :
                    BeforeEOT(TextField(pkt.data))[k] < 32)
        => (sub.rects = <<>> /\ got_sub = 0)

\* the timestamp of the specification, in milliseconds
ClaimMs(tc) == ((tc[1] - 10) * 3600 + tc[2] * 60 + tc[3]) * 1000 + tc[4] * 40

GraveOf(u) ==
    CASE u = 65 -> 192 [] u = 69 -> 200 [] u = 73 -> 204 [] u = 79 -> 210 [] u = 85 -> 217
AccentOffset(d, u) ==
    CASE d = 193 -> 0 [] d = 194 -> 1 [] d = 195 -> 2
      [] d = 200 -> IF u \in {65, 79} THEN 4 ELSE 3
HasMapping(d, b) == d \in {193, 194, 195, 200} /\ b \in Vowels
Precomposed(d, b) ==
    IF b >= 97 THEN GraveOf(b - 32) + AccentOffset(d, b - 32) + 32
    ELSE GraveOf(b) + AccentOffset(d, b)
\* UTF-8 of a code point below 0x800
Utf8(cp) == IF cp < 128 THEN <<cp>> ELSE <<192 + (cp \div 64), 128 + (cp % 64)>>

\* the reference left-to-right scan
RECURSIVE RefScan(_)
RefScan(s) ==
    IF s = <<>> THEN <<>>
    ELSE IF Len(s) >= 2 /\ s[1] >= 193 /\ s[1] <= 207 /\ HasMapping(s[1], s[2])
    THEN Utf8(Precomposed(s[1], s[2])) \o RefScan(SubSeq(s, 3, Len(s)))
    ELSE <<s[1]>> \o RefScan(Tail(s))

\* C3: what the transcoder writes is the reference scan of its input: a mapped
\* diacritic and base letter become the one precomposed character, every other
\* byte is copied, and printable ASCII transcodes to itself.
C3_TranscoderIsReferenceScan ==
    (output # NotCalled /\ output # NULL) =>
        /\ output = RefScan(input)
        /\ ((\A k \in 1..Len(input) : input[k] >= 32 /\ input[k] <= 126) => output = input)

C3_Witness ==
    /\ input = <<194, 101, 194>>
    /\ output = <<195, 169, 194>>

\* the alignment code of the specification
ClaimAlign(vp, jc) ==
    LET vr == IF vp < 8 THEN 3 ELSE IF vp <= 16 THEN 2 ELSE 1
        hr == IF jc = 1 THEN 1 ELSE IF jc = 3 THEN 3 ELSE 2
    IN (vr - 1) * 3 + hr

\* C4: the markup of a cue starts with the alignment tag of the code
\* (vr-1)*3 + hr of its vertical-position and justification bytes; the code
\* is in 1..9; (5,1) gives 7, (12,2) gives 5, (20,3) gives 3.
C4_AlignmentTag ==
    Decoded =>
        \A k \in 1..Len(sub.rects) :
            LET vp == At(pkt.data, 13)
                jc == At(pkt.data, 14)
                code == ClaimAlign(vp, jc)
            IN /\ code \in 1..9
               /\ SubSeq(sub.rects[k].text, 1, 6) = <<123, 92, 97, 110, 48 + code, 125>>
               /\ (vp = 5 /\ jc = 1 => sub.rects[k].text[5] = 55)
               /\ (vp = 12 /\ jc = 2 => sub.rects[k].text[5] = 53)
               /\ (vp = 20 /\ jc = 3 => sub.rects[k].text[5] = 51)

C4_Witness ==
    /\ Decoded
    /\ Len(sub.rects) = 1
    /\ At(pkt.data, 13) = 20
    /\ At(pkt.data, 14) = 3
    /\ SubSeq(sub.rects[1].text, 1, 6) = <<123, 92, 97, 110, 51, 125>>

\* ---- helpers of the claims about the markup ----

\* the markup ebustl_decode_frame builds for block b when no allocation fails
MarkupOf(b) ==
    final_ass_text(b, extract_text_and_colors_from_tti_block(b, TTI_BLOCK_SIZE, "none").ass_string)

\* the len bytes of m from position a on, or <<>> when m is too short
Slice(m, a, len) == IF a >= 1 /\ a + len - 1 <= Len(m) THEN SubSeq(m, a, a + len - 1) ELSE <<>>

\* the j-th smallest element of a set of numbers, j >= 1
Nth(S, j) == CHOOSE p \in S : Cardinality({q \in S : q < p}) = j - 1

\* the lines of the text field of b: its bytes before the first 0x8F, cut at
\* every 0x8A; NumLines of them, numbered from 0
LineBreaks(b) ==
    {k \in 1..Len(BeforeEOT(TextField(b))) : BeforeEOT(TextField(b))[k] = 138}
NumLines(b) == Cardinality(LineBreaks(b)) + 1
RawLine(b, k) ==
    LET P == BeforeEOT(TextField(b))
        first == IF k = 0 THEN 1 ELSE Nth(LineBreaks(b), k) + 1
        last == IF k = NumLines(b) - 1 THEN Len(P) ELSE Nth(LineBreaks(b), k + 1) - 1
    IN SubSeq(P, first, last)
IsPrintable(x) == x >= 32
LineText(b, k) == RefScan(SelectSeq(RawLine(b, k), IsPrintable))

\* the colours of a line by its own bytes: the last byte in 0x00..0x07 and the
\* last byte in 0x10..0x17 (masked), White (0) and Black (7) without one
IsTextColor(x) == x >= 0 /\ x <= 7
IsBackColor(x) == x >= 16 /\ x <= 23
LineColors(l) ==
    LET t == SelectSeq(l, IsTextColor)
        g == SelectSeq(l, IsBackColor)
    IN [text_color |-> IF t = <<>> THEN 0 ELSE t[Len(t)],
        background_color |-> IF g = <<>> THEN 7 ELSE g[Len(g)] % 8]

\* the tags of a markup string
IsHex(x) == (x >= 48 /\ x <= 57) \/ (x >= 65 /\ x <= 70)
IsTextTag(t) ==
    /\ Len(t) = 13
    /\ SubSeq(t, 1, 5) = <<123, 92, 99, 38, 72>>
    /\ \A k \in 6..11 : IsHex(t[k])
    /\ SubSeq(t, 12, 13) = <<38, 125>>
IsBorderTag(t) ==
    /\ Len(t) = 14
    /\ SubSeq(t, 1, 6) = <<123, 92, 51, 99, 38, 72>>
    /\ \A k \in 7..12 : IsHex(t[k])
    /\ SubSeq(t, 13, 14) = <<38, 125>>
\* where the text-colour tags of m start; each is followed by a border tag
TagPositions(m) == {p \in 1..Len(m) : IsTextTag(Slice(m, p, 13))}
TextTagOfLine(m, k) == Slice(m, Nth(TagPositions(m), k + 1), 13)
BorderTagOfLine(m, k) == Slice(m, Nth(TagPositions(m), k + 1) + 13, 14)

\* from position pos on, m holds the lines k, k+1, ... of b as the
\* specification lays them out: the two tags of the line, at once its text,
\* then a line break before the next line or the border-width tag at the end
RECURSIVE LaidOutFrom(_, _, _, _)
LaidOutFrom(m, pos, b, k) ==
    LET text == LineText(b, k)
        after == pos + 27 + Len(text)
    IN /\ IsTextTag(Slice(m, pos, 13))
       /\ IsBorderTag(Slice(m, pos + 13, 14))
       /\ Slice(m, pos + 27, Len(text)) = text
       /\ IF k = NumLines(b) - 1
          THEN SubSeq(m, after, Len(m)) = BorderWidth
          ELSE /\ Slice(m, after, 2) = LineBreak
               /\ LaidOutFrom(m, after + 2, b, k + 1)

\* the text field of b is n >= 1 lines, each with a printable byte, separated
\* by 0x8A and ended by 0x8F
NonEmptyLines(b) ==
    /\ \E k \in 1..Len(TextField(b)) : TextField(b)[k] = 143
    /\ \A k \in 0..(NumLines(b) - 1) : SelectSeq(RawLine(b, k), IsPrintable) # <<>>

\* C5: for a text field of n >= 1 non-empty lines the markup is the alignment
\* tag, then per line its text-colour and border-colour tag immediately followed
\* by its transcoded text, one line break between consecutive lines, and the
\* border-width tag at the end.
C5_MarkupLayout ==
    (Decoded /\ NonEmptyLines(pkt.data)) =>
        /\ Len(sub.rects) = 1
        /\ Slice(sub.rects[1].text, 1, 4) = <<123, 92, 97, 110>>
        /\ Slice(sub.rects[1].text, 6, 1) = <<125>>
        /\ LaidOutFrom(sub.rects[1].text, 7, pkt.data, 0)

\* C6: when the allocation of a working buffer fails, the decode call returns
\* an out-of-memory error, does not use the null buffer, and adds no cue.
C6_AllocationFailureIsReported ==
    (pc \in {"output", "crashed"} /\ alloc_fail # "none") =>
        /\ pc = "output"
        /\ decode_ret = AVERROR(ENOMEM)
        /\ sub.rects = <<>>
        /\ got_sub = 0

\* C7: the tags of line k of a cue are those of the last text-colour byte and
\* the last background-colour byte within line k, White and Black without one
\* (the tag of a colour taken from either table of the code).
C7_ColorsOfOwnLine ==
    Decoded =>
        \A r \in 1..Len(sub.rects) : \A k \in 0..(NumLines(pkt.data) - 1) :
            LET c == LineColors(RawLine(pkt.data, k))
                m == sub.rects[r].text
            IN /\ Cardinality(TagPositions(m)) > k
               /\ TextTagOfLine(m, k) \in
                      {text_color_str_first(c.text_color), text_color_str_next(c.text_color)}
               /\ BorderTagOfLine(m, k) \in
                      {border_color_first(c.background_color),
                       border_color_next(c.background_color)}

\* block b with every byte of the text field after its first 0x8F set to v
TailFilled(b, v) ==
    [k \in 1..TTI_BLOCK_SIZE |->
        IF k > TTI_TEXT_FIELD_OFFSET + Len(BeforeEOT(TextField(b))) + 1 THEN v ELSE b[k]]

\* C8: two blocks that agree up to and including the first 0x8F of the text
\* field have the same markup: that of a block is the markup of the block that
\* agrees with it up to there and holds only 0x8F after it.
C8_NothingAfterEndOfText ==
    Decoded =>
        \A r \in 1..Len(sub.rects) :
            MarkupOf(TailFilled(pkt.data, 143)) = sub.rects[r].text

\* C9: a colour value gives the same tag on every line of a block; text colour
\* 1 gives 0000FF and text colour 4 gives FF0000 on every line.
C9_OneColorTable ==
    Decoded =>
        \A r \in 1..Len(sub.rects) :
            LET m == sub.rects[r].text
                n == Cardinality(TagPositions(m))
            IN \A j \in 0..(n - 1) :
                  /\ \A k \in 0..(n - 1) :
                        /\ extract_colors_from_tti(pkt.data, j).text_color
                              = extract_colors_from_tti(pkt.data, k).text_color
                           => TextTagOfLine(m, j) = TextTagOfLine(m, k)
                        /\ extract_colors_from_tti(pkt.data, j).background_color
                              = extract_colors_from_tti(pkt.data, k).background_color
                           => BorderTagOfLine(m, j) = BorderTagOfLine(m, k)
                  /\ extract_colors_from_tti(pkt.data, j).text_color = 1
                        => TextTagOfLine(m, j) = text_tag(x00 \o x00 \o xFF)
                  /\ extract_colors_from_tti(pkt.data, j).text_color = 4
                        => TextTagOfLine(m, j) = text_tag(xFF \o x00 \o x00)

\* block b with other vertical-position and justification bytes
WithHeader(b, vp, jc) ==
    [k \in 1..TTI_BLOCK_SIZE |-> IF k = 14 THEN vp ELSE IF k = 15 THEN jc ELSE b[k]]
\* a markup string without its alignment tag
AfterAlignmentTag(m) == SubSeq(m, 7, Len(m))

\* C10: two blocks that differ only in the vertical-position or justification
\* byte have the same markup after the alignment tag: that of a block is the one
\* of the same block with vertical position 5 and justification 2.
C10_HeaderOnlySetsAlignment ==
    Decoded =>
        \A r \in 1..Len(sub.rects) :
            AfterAlignmentTag(MarkupOf(WithHeader(pkt.data, 5, 2)))
                = AfterAlignmentTag(sub.rects[r].text)

\* C11: when ebustl_decode_frame has returned from a call in which no
\* allocation failed, none of the working buffers it allocated for the blocks
\* of the packet is still allocated: no raw line accumulator, no transcoded
\* line, no markup string, no alignment string and no final markup string.
C11_BuffersReleased ==
    Decoded => live = NoBuffers

\* C12: when convert_iso6937_to_utf8 has returned a buffer for an input of
\* length n >= 0, the highest index it wrote, that of the terminating NUL, is
\* below the capacity 4 * n of the buffer.
C12_WritesWithinCapacity ==
    (output # NotCalled /\ output # NULL)
        => nul_index(output) < out_len(Len(input))

====
